---- MODULE Spec2Model ----
(***************************************************************************)
(* Model of the chimera admission library (pkg/chimera): the startup path  *)
(* of StartServer, the delete/list/create reconcile loop of                *)
(* registerAdmissionWebhooks against the cluster's validating-webhook      *)
(* registry, and the per-request handler performValidation.                *)
(***************************************************************************)
EXTENDS Integers, Sequences, FiniteSets, TLC

(* Number of transient registry failures (Delete, List or Create answering *)
(* an error other than NotFound / AlreadyExists) injected in one run.      *)
MaxFaults == 2

(* Number of requests the listener handles in one run.                     *)
MaxRequests == 1

(* The value of a Go error that is nil, and of an unset string.            *)
Nil == "nil"

(* ---------------------------------------------------------------- data *)

(* AdmissionConfig.Name of the modelled program, and the names a registry  *)
(* object can have: the configuration's own name and an unrelated one.     *)
AdmissionName == "demo"
RegistryNames == {AdmissionName, "other"}

(* WebhookList of the configuration: one webhook with neither Name nor     *)
(* Path, one with both.                                                    *)
Webhooks ==
  << [Name |-> "", Path |-> "", Callback |-> 1],
     [Name |-> "named", Path |-> "/named", Callback |-> 2] >>

(* The (CertFile, KeyFile, CaFile) triples a caller hands in.              *)
CertInputs ==
  { [CertFile |-> "", KeyFile |-> "", CaFile |-> ""],
    [CertFile |-> "tls.crt", KeyFile |-> "tls.key", CaFile |-> "ca.crt"],
    [CertFile |-> "tls.crt", KeyFile |-> "tls.key", CaFile |-> ""],
    [CertFile |-> "tls.crt", KeyFile |-> "", CaFile |-> "ca.crt"] }

(* type AdmissionConfig struct                                             *)
AdmissionConfig(host, certs, skip) ==
  [ Name |-> AdmissionName,
    KubeNamespace |-> "",
    KubeService |-> "",
    CallbackHost |-> host,
    CallbackPort |-> 8443,
    Webhooks |-> Webhooks,
    CertFile |-> certs.CertFile,
    KeyFile |-> certs.KeyFile,
    CaFile |-> certs.CaFile,
    SkipAdmissionRegistration |-> skip ]

VARIABLES
  config,      \* the caller's *AdmissionConfig
  insecure,    \* StartServer's second parameter
  clusterDown, \* environment: the cluster registry never answers a call with success
  registry,    \* the cluster's validating-webhook registry: name -> content
  files,       \* files on disk: caller-supplied and temporary certificate files
  pc,          \* position of StartServer / registerAdmissionWebhooks
  steps,       \* startup stages entered so far, in order
  err,         \* StartServer's local err: result of the last fallible call
  ret,         \* value StartServer returned ("running" until it returns)
  caCertFile,  \* local of StartServer
  certFile,    \* local of StartServer
  keyFile,     \* local of StartServer
  deferred,    \* files whose removal StartServer has deferred
  handlers,    \* the process-wide http handler table
  webhookCfg,  \* local of registerAdmissionWebhooks: the object to create
  calls,       \* registry calls of the running registerAdmissionWebhooks, with results
  log,         \* lines logged in the current reconcile cycle
  listener,    \* "none", "http" or "https"
  requests,    \* number of requests handled
  served,      \* the last request handled and its response
  original,    \* a WebhookResponse as its constructor or a literal made it
  decision,    \* that WebhookResponse after the builder calls in chain
  chain,       \* the WithCode / WithMessage calls applied so far, in order
  regCfg,      \* argument of asValidatingAdmissionRegistration
  regOut,      \* its result, once it has been called
  sanHost,     \* generateCert's host argument
  sanExtra,    \* generateCert's extraSANs argument
  sanOut,      \* the certificate's IPAddresses and DNSNames, once built
  inflight,    \* the requests being handled concurrently, one per goroutine
  racePc,      \* position of each of two competing registerAdmissionWebhooks
  raceRegistry,\* the registry the two of them work on
  runs,        \* how often the reconcile loop has been entered
  firstRegistry \* the registry as the first run of the loop left it

vars ==
  << config, insecure, clusterDown, registry, files, pc, steps, err, ret,
     caCertFile, certFile, keyFile, deferred, handlers, webhookCfg, calls,
     log, listener, requests, served,
     original, decision, chain, regCfg, regOut, sanHost, sanExtra, sanOut,
     inflight, racePc, raceRegistry, runs, firstRegistry >>

(* The variables of StartServer's run, and those holding the argument and  *)
(* result of a function that is checked on its own.                        *)
serverVars ==
  << config, insecure, clusterDown, registry, files, pc, steps, err, ret,
     caCertFile, certFile, keyFile, deferred, handlers, webhookCfg, calls,
     log, listener, requests, served >>

decisionVars == << original, decision, chain >>
regVars == << regCfg, regOut >>
sanVars == << sanHost, sanExtra, sanOut >>
concVars == << inflight >>
raceVars == << racePc, raceRegistry >>
againVars == << runs, firstRegistry >>
laterVars == << concVars, raceVars, againVars >>
funcVars == << decisionVars, regVars, sanVars, laterVars >>

(* ------------------------------------------------- certificate material *)

(* The fallible steps of automaticCertGeneration, in program order.        *)
CertGenSteps ==
  << "generateCA", "generateCert", "TempFileCA", "TempFileCert", "TempFileKey",
     "WriteFileCA", "WriteFileCert", "WriteFileKey" >>

CertGenFailures == { CertGenSteps[i] : i \in DOMAIN CertGenSteps }

TmpCA == "validating-webhook-ca.tmp.crt"
TmpCert == "validating-webhook.tmp.crt"
TmpKey == "validating-webhook.tmp.key"

StepIndex(step) == CHOOSE i \in DOMAIN CertGenSteps : CertGenSteps[i] = step

(* automaticCertGeneration whose error returns leave the temporary files   *)
(* where they are.                                                         *)
automaticCertGeneration_noCleanup(failAt) ==
  LET reached(step) == failAt = Nil \/ StepIndex(failAt) > StepIndex(step)
      created == (IF reached("TempFileCA") THEN {TmpCA} ELSE {})
                 \cup (IF reached("TempFileCert") THEN {TmpCert} ELSE {})
                 \cup (IF reached("TempFileKey") THEN {TmpKey} ELSE {})
  IN IF failAt = Nil
     THEN [caCertFile |-> TmpCA, certFile |-> TmpCert, keyFile |-> TmpKey,
           err |-> Nil, created |-> created, removed |-> {}]
     ELSE [caCertFile |-> "", certFile |-> "", keyFile |-> "",
           err |-> failAt, created |-> created, removed |-> {}]

(* automaticCertGeneration, failing at step failAt (Nil: no failure): the  *)
(* three names and error it returns, the temporary files it created and    *)
(* the ones its own deferred os.Remove calls removed before returning.     *)
automaticCertGeneration(failAt) ==
  LET reached(step) == failAt = Nil \/ StepIndex(failAt) > StepIndex(step)
      created == (IF reached("TempFileCA") THEN {TmpCA} ELSE {})
                 \cup (IF reached("TempFileCert") THEN {TmpCert} ELSE {})
                 \cup (IF reached("TempFileKey") THEN {TmpKey} ELSE {})
  IN IF failAt = Nil
     THEN [caCertFile |-> TmpCA, certFile |-> TmpCert, keyFile |-> TmpKey,
           err |-> Nil, created |-> created, removed |-> {}]
     ELSE [caCertFile |-> "", certFile |-> "", keyFile |-> "",
           err |-> failAt, created |-> created, removed |-> created]

(* pemEncodeCertificate: the CERTIFICATE block around the given bytes.     *)
pemEncodeCertificate(certificate) ==
  "-----BEGIN CERTIFICATE-----" \o certificate \o "-----END CERTIFICATE-----"

(* The bytes ioutil.ReadFile yields for a file of the given name.          *)
ReadFile(name) == "contents-of:" \o name

(* ------------------------------------------------- registration object *)

(* Hosts that contain a colon: IPv6 literals.                              *)
ColonHosts == {"::1"}

(* net.JoinHostPort: a host containing a colon is put in brackets.         *)
JoinHostPort(host, port) ==
  IF host \in ColonHosts THEN "[" \o host \o "]:" \o port
  ELSE host \o ":" \o port

(* url.URL.String for a URL of scheme, host and a path that is empty or    *)
(* begins with "/" and needs no escaping.                                  *)
URLString(scheme, host, path) == scheme \o "://" \o host \o path

(* fmt.Sprintf("rule-%d", i) with a loop index counted from one.           *)
RuleName_fromOne(i) == "rule-" \o ToString(i + 1)

(* fmt.Sprintf("rule-%d", i), i the loop index counted from zero.          *)
RuleName(i) == "rule-" \o ToString(i)

(* A service reference as soon as one of the two fields is given.          *)
UseService_either(admissionConfig) ==
  admissionConfig.KubeNamespace # "" \/ admissionConfig.KubeService # ""

(* admissionConfig.KubeNamespace != "" && admissionConfig.KubeService != "" *)
UseService(admissionConfig) ==
  admissionConfig.KubeNamespace # "" /\ admissionConfig.KubeService # ""

(* WebhookList.asValidatingAdmissionRegistration. An optional (pointer)    *)
(* field is a set with at most one element.                                *)
asValidatingAdmissionRegistration(admissionConfig, caBundle) ==
  LET entry(i) ==
        LET webhook == admissionConfig.Webhooks[i]
            admissionCallback ==
              URLString("https",
                        JoinHostPort(admissionConfig.CallbackHost,
                                     ToString(admissionConfig.CallbackPort)),
                        webhook.Path)
            useService == UseService(admissionConfig)
            name == IF webhook.Name = "" THEN RuleName(i - 1)
                    ELSE webhook.Name
        IN [ Name |-> name \o "." \o admissionConfig.Name,
             CABundle |-> caBundle,
             Service |-> IF useService
                         THEN {[Namespace |-> admissionConfig.KubeNamespace,
                                Name |-> admissionConfig.KubeService,
                                Path |-> webhook.Path,
                                Port |-> admissionConfig.CallbackPort]}
                         ELSE {},
             URL |-> IF useService THEN {} ELSE {admissionCallback} ]
  IN [ Name |-> admissionConfig.Name,
       Webhooks |-> [i \in 1..Len(admissionConfig.Webhooks) |-> entry(i)] ]

(* ---------------------------------------------------- handler installation *)

(* generateValidatePath: "/validate-" and a fresh uuid, one per call.      *)
generateValidatePath(n) == "/validate-uuid" \o ToString(n)

(* The value a handler closure finds in the range variable `webhook` when  *)
(* it runs: the module declares go 1.15, where the loop has one variable   *)
(* shared by every closure, left holding the last element.                 *)
CapturedWebhook(webhooks, i) == webhooks[Len(webhooks)]

(* A loop that writes the generated path into the list's own element.      *)
WebhooksAfterSetup_inPlace(admissionConfig) ==
  [ i \in DOMAIN admissionConfig.Webhooks |->
      IF admissionConfig.Webhooks[i].Path = ""
      THEN [admissionConfig.Webhooks[i] EXCEPT !.Path = generateValidatePath(i)]
      ELSE admissionConfig.Webhooks[i] ]

(* admissionConfig.Webhooks after setupAdmissionWebhooks: `webhook` in     *)
(* `for _, webhook := range admissionConfig.Webhooks` is a copy of the     *)
(* element, so the assignment to webhook.Path leaves the list as it was.   *)
WebhooksAfterSetup(admissionConfig) == admissionConfig.Webhooks

(* setupAdmissionWebhooks: the entries added to the handler table.         *)
setupAdmissionWebhooks(admissionConfig) ==
  [ i \in 1..Len(admissionConfig.Webhooks) |->
      LET webhook == admissionConfig.Webhooks[i]
      IN [ pattern |-> IF webhook.Path = "" THEN generateValidatePath(i)
                       ELSE webhook.Path,
           callback |-> CapturedWebhook(admissionConfig.Webhooks, i).Callback ] ]

(* ------------------------------------------------------- request handling *)

UIDs == {"uid-1", "uid-2"}

(* Request bodies: text that is no JSON, JSON of the wrong shape, JSON     *)
(* documents without an admission request, and reviews carrying a request. *)
ReviewBody(uid) == "{request:{uid:" \o uid \o "}}"
Bodies == {"not json", "[]", "{}", "null"} \cup { ReviewBody(u) : u \in UIDs }

(* json.Unmarshal(body, &admissionReview): the error, and the Request      *)
(* pointer of the decoded review (empty: nil).                             *)
Unmarshal(body) ==
  IF body \in {"not json", "[]"}
  THEN [err |-> "json: cannot unmarshal", Request |-> {}]
  ELSE IF body \in {"{}", "null"}
  THEN [err |-> Nil, Request |-> {}]
  ELSE [err |-> Nil,
        Request |-> {[UID |-> u] : u \in {v \in UIDs : ReviewBody(v) = body}}]

(* What a WebhookCallback can return: a WebhookResponse and an error.      *)
WebhookResponse(allowed, code, message) ==
  [Allowed |-> allowed, Code |-> code, RejectionMessage |-> message]

(* func NewAllowRequest() / func NewRejectRequest()                        *)
NewAllowRequest == WebhookResponse(TRUE, {}, {})
NewRejectRequest == WebhookResponse(FALSE, {}, {})

(* WithCode without its guard.                                             *)
WithCode_unguarded(r, code) == [r EXCEPT !.Code = {code}]

(* func (r WebhookResponse) WithCode(code int32) WebhookResponse           *)
WithCode(r, code) ==
  IF ~r.Allowed THEN [r EXCEPT !.Code = {code}] ELSE r

(* func (r WebhookResponse) WithMessage(message string) WebhookResponse    *)
WithMessage(r, message) ==
  IF ~r.Allowed THEN [r EXCEPT !.RejectionMessage = {message}] ELSE r

CallbackResults ==
  { [response |-> WebhookResponse(TRUE, {}, {}), err |-> Nil],
    [response |-> WebhookResponse(FALSE, {}, {}), err |-> Nil],
    [response |-> WebhookResponse(FALSE, {403}, {"denied for test"}), err |-> Nil],
    [response |-> WebhookResponse(TRUE, {403}, {"set on an allowing decision"}), err |-> Nil],
    [response |-> WebhookResponse(FALSE, {}, {}), err |-> "callback failed"] }

(* internalServerError: status 500, nothing written to the body.           *)
internalServerError(e) ==
  [outcome |-> "Error500", status |-> 500, contentType |-> "", body |-> {},
   logged |-> e]

(* The JSON admission review written on success.                           *)
Marshal(request, webhookResponse) ==
  [ UID |-> request.UID,
    Allowed |-> webhookResponse.Allowed,
    Code |-> webhookResponse.Code \ {0},
    Message |-> webhookResponse.RejectionMessage \ {""} ]

(* performValidation without the check of the decoding error: the         *)
(* callback runs on whatever was decoded.                                  *)
performValidation_noDecodeCheck(callbackResult, body, marshalOk) ==
  LET admissionReview == Unmarshal(body)
  IN IF callbackResult.err # Nil
     THEN [invoked |-> TRUE, marshalled |-> FALSE,
           response |-> internalServerError(callbackResult.err)]
     ELSE IF admissionReview.Request = {}
     THEN [invoked |-> TRUE, marshalled |-> FALSE,
           response |-> [outcome |-> "Panic", status |-> 0, contentType |-> "",
                         body |-> {}, logged |-> "nil pointer dereference"]]
     ELSE [invoked |-> TRUE, marshalled |-> TRUE,
           response |->
             [outcome |-> "Responded", status |-> 200,
              contentType |-> "application/json",
              body |-> { Marshal(r, callbackResult.response) :
                           r \in admissionReview.Request },
              logged |-> Nil]]

(* performValidation on a request body, given what the callback returns    *)
(* when invoked and whether json.Marshal succeeds: whether the callback    *)
(* was invoked and what the client receives. Dereferencing the nil Request *)
(* panics; net/http recovers the panic and drops the connection, so the    *)
(* client receives no status at all.                                       *)
performValidation(callbackResult, body, marshalOk) ==
  LET admissionReview == Unmarshal(body)
  IN IF admissionReview.err # Nil
     THEN [invoked |-> FALSE, marshalled |-> FALSE,
           response |-> internalServerError(admissionReview.err)]
     ELSE IF callbackResult.err # Nil
     THEN [invoked |-> TRUE, marshalled |-> FALSE,
           response |-> internalServerError(callbackResult.err)]
     ELSE IF admissionReview.Request = {}
     THEN [invoked |-> TRUE, marshalled |-> FALSE,
           response |-> [outcome |-> "Panic", status |-> 0, contentType |-> "",
                         body |-> {}, logged |-> "nil pointer dereference"]]
     ELSE IF ~marshalOk
     THEN [invoked |-> TRUE, marshalled |-> TRUE,
           response |-> internalServerError("json: marshal failed")]
     ELSE [invoked |-> TRUE, marshalled |-> TRUE,
           response |->
             [outcome |-> "Responded", status |-> 200,
              contentType |-> "application/json",
              body |-> { Marshal(r, callbackResult.response) :
                           r \in admissionReview.Request },
              logged |-> Nil]]

(* ------------------------------------------------------------ control flow *)

LoopStates == {"Deleting", "Listing", "Creating"}

(* StartServer as an earlier revision ordered it: registration first, the  *)
(* handlers installed after it.                                            *)
StartServerNext_registerFirst(stage, cfg) ==
  CASE stage = "Start" -> "CertMaterial"
    [] stage = "CertMaterial" ->
         IF cfg.SkipAdmissionRegistration THEN "SetupHandlers" ELSE "ReadCA"
    [] stage = "ReadCA" -> "RegSetup"
    [] stage = "Registered" -> "SetupHandlers"
    [] stage = "SetupHandlers" -> "Listen"
    [] stage = "Listen" -> "Serving"

(* StartServer with the SkipAdmissionRegistration test left out.           *)
StartServerNext_skipIgnored(stage, cfg) ==
  CASE stage = "Start" -> "CertMaterial"
    [] stage = "CertMaterial" -> "SetupHandlers"
    [] stage = "SetupHandlers" -> "ReadCA"
    [] stage = "ReadCA" -> "RegSetup"
    [] stage = "Registered" -> "Listen"
    [] stage = "Listen" -> "Serving"

(* StartServer: the statement that follows a stage that did not fail.      *)
StartServerNext(stage, cfg) ==
  CASE stage = "Start" -> "CertMaterial"
    [] stage = "CertMaterial" -> "SetupHandlers"
    [] stage = "SetupHandlers" ->
         IF cfg.SkipAdmissionRegistration THEN "Listen" ELSE "ReadCA"
    [] stage = "ReadCA" -> "RegSetup"
    [] stage = "Registered" -> "Listen"
    [] stage = "Listen" -> "Serving"

(* StartServer dropping the error of a fallible call.                      *)
Fatal_ignored(e) == FALSE

(* StartServer returns the error of a fallible call when it is not nil.    *)
Fatal(e) == e # Nil

(* The loop retrying from List after a failed Create.                      *)
ReconcileNext_retryFromList(stage, e) ==
  CASE stage = "RegSetup" -> "Deleting"
    [] stage = "Deleting" -> "Listing"
    [] stage = "Listing" -> "Creating"
    [] stage = "Creating" -> IF e = Nil THEN "Registered" ELSE "Listing"

(* The loop left after the first Create whatever it answered.              *)
ReconcileNext_breakOnError(stage, e) ==
  CASE stage = "RegSetup" -> "Deleting"
    [] stage = "Deleting" -> "Listing"
    [] stage = "Listing" -> "Creating"
    [] stage = "Creating" -> "Registered"

(* The loop retrying Create alone after a failed Create.                   *)
ReconcileNext_retryCreateOnly(stage, e) ==
  CASE stage = "RegSetup" -> "Deleting"
    [] stage = "Deleting" -> "Listing"
    [] stage = "Listing" -> "Creating"
    [] stage = "Creating" -> IF e = Nil THEN "Registered" ELSE "Creating"

(* The loop starting over when List fails, without attempting Create.      *)
ReconcileNext_listGates(stage, e) ==
  CASE stage = "RegSetup" -> "Deleting"
    [] stage = "Deleting" -> "Listing"
    [] stage = "Listing" -> IF e = Nil THEN "Creating" ELSE "Deleting"
    [] stage = "Creating" -> IF e = Nil THEN "Registered" ELSE "Deleting"

(* A loop that also takes "already exists" from Create for success.        *)
ReconcileNext_existsIsSuccess(stage, e) ==
  CASE stage = "RegSetup" -> "Deleting"
    [] stage = "Deleting" -> "Listing"
    [] stage = "Listing" -> "Creating"
    [] stage = "Creating" ->
         IF e \in {Nil, "AlreadyExists"} THEN "Registered" ELSE "Deleting"

(* registerAdmissionWebhooks: the statement that follows a registry call   *)
(* that answered e. Only a Create that succeeded leaves the loop.          *)
ReconcileNext(stage, e) ==
  CASE stage = "RegSetup" -> "Deleting"
    [] stage = "Deleting" -> "Listing"
    [] stage = "Listing" -> "Creating"
    [] stage = "Creating" -> IF e = Nil THEN "Registered" ELSE "Deleting"

IsNotFound(e) == e = "NotFound"

(* The lines a reconcile cycle logs after Delete, List and Create.         *)
Line(level, msg, names) == [level |-> level, msg |-> msg, names |-> names]

(* Delete logging every error, NotFound included, as the earlier          *)
(* revisions of the loop did.                                              *)
DeleteLog_everyError(e) ==
  IF e # Nil
  THEN << Line("error", "Could not cleanup webhook prior to start", {}) >>
  ELSE << >>

DeleteLog(e) ==
  IF e # Nil /\ ~IsNotFound(e)
  THEN << Line("error", "Could not cleanup webhook prior to start", {}) >>
  ELSE << >>

ListLog(e, items) ==
  IF e = Nil
  THEN IF Cardinality(items) # 0
       THEN << Line("info", "WARNING: webhook(s) already registered besides this admission", items) >>
       ELSE << >>
  ELSE << Line("error", "Could not list current validation webhooks", {}) >>

CreateLog(e) ==
  IF e = Nil
  THEN << Line("info", "webhook correctly installed", {}) >>
  ELSE << Line("error", "could not register webhook", {}) >>

(* One call on the registry client and its result.                         *)
Call(op, name, e, items) == [op |-> op, name |-> name, err |-> e, items |-> items]

Present(reg, name) == \E o \in reg : o.Name = name

(* Transient failures among the calls made so far.                         *)
Faults(cs) == Cardinality({ i \in DOMAIN cs : cs[i].err = "Other" })

CreateFailures(cs) ==
  Cardinality({ i \in DOMAIN cs : cs[i].op = "Create" /\ cs[i].err # Nil })

(* ------------------------------------------------ functions on their own *)

(* While StartServer runs, no builder call, registration build or          *)
(* certificate is under observation, and the other way round.              *)
ConcIdle == inflight = << >>

RaceIdle == racePc = << >> /\ raceRegistry = {}

AgainIdle == runs = 1 /\ firstRegistry = {}

LaterIdle == ConcIdle /\ RaceIdle /\ AgainIdle

RegIdle ==
  /\ regCfg = AdmissionConfig("", CHOOSE c \in CertInputs : c.CertFile = "", FALSE)
  /\ regOut = {}

SanIdle == sanHost = "" /\ sanExtra = << >> /\ sanOut = {}

DecisionIdle == original = NewAllowRequest /\ decision = NewAllowRequest /\ chain = << >>

ServerIdle ==
  /\ config = AdmissionConfig("", CHOOSE c \in CertInputs : c.CertFile = "", FALSE)
  /\ insecure = FALSE
  /\ clusterDown = FALSE
  /\ registry = {}
  /\ files = {}
  /\ pc = "Idle"
  /\ steps = << >>
  /\ err = Nil
  /\ ret = "running"
  /\ caCertFile = ""
  /\ certFile = ""
  /\ keyFile = ""
  /\ deferred = {}
  /\ handlers = << >>
  /\ webhookCfg = [Name |-> "", Webhooks |-> << >>]
  /\ calls = << >>
  /\ log = << >>
  /\ listener = "none"
  /\ requests = 0
  /\ served = << >>

(* Longest chain of builder calls applied to one WebhookResponse.          *)
MaxChain == 3

Codes == {403, 404}
Messages == {"denied", "try later"}

(* A WebhookResponse as a callback can hold it: made by a constructor or   *)
(* written as a struct literal.                                            *)
Decisions ==
  { WebhookResponse(a, c, m) :
      a \in BOOLEAN, c \in {{}, {400}}, m \in {{}, {"literal"}} }

BuilderCall(op, code, message) == [op |-> op, code |-> code, message |-> message]

DecisionInit ==
  /\ ServerIdle /\ RegIdle /\ SanIdle /\ LaterIdle
  /\ original \in Decisions
  /\ decision = original
  /\ chain = << >>

(* decision = decision.WithCode(code)                                      *)
ApplyWithCode ==
  /\ Len(chain) < MaxChain
  /\ \E code \in Codes :
       /\ decision' = WithCode(decision, code)
       /\ chain' = Append(chain, BuilderCall("WithCode", {code}, {}))
  /\ UNCHANGED << original, serverVars, regVars, sanVars, laterVars >>

(* decision = decision.WithMessage(message)                                *)
ApplyWithMessage ==
  /\ Len(chain) < MaxChain
  /\ \E message \in Messages :
       /\ decision' = WithMessage(decision, message)
       /\ chain' = Append(chain, BuilderCall("WithMessage", {}, {message}))
  /\ UNCHANGED << original, serverVars, regVars, sanVars, laterVars >>

DecisionNext == ApplyWithCode \/ ApplyWithMessage

DecisionSpec == DecisionInit /\ [][DecisionNext]_vars

(* Longest webhook list handed to asValidatingAdmissionRegistration.       *)
MaxWebhooks == 2

(* Webhook definitions with and without a name and a path.                 *)
WebhookDefs ==
  { [Name |-> n, Path |-> p, Callback |-> 1] :
      n \in {"", "named"}, p \in {"", "/validate"} }

WebhookLists == UNION { [1..n -> WebhookDefs] : n \in 0..MaxWebhooks }

CallbackHosts == {"localhost", "webhook.example.test", "::1"}

RegInit ==
  /\ ServerIdle /\ DecisionIdle /\ SanIdle /\ LaterIdle
  /\ \E host \in CallbackHosts, ns \in {"", "kube-system"},
        svc \in {"", "webhook-svc"}, webhooks \in WebhookLists :
       regCfg = [ AdmissionConfig(host, CHOOSE c \in CertInputs : c.CertFile = "", FALSE)
                    EXCEPT !.KubeNamespace = ns, !.KubeService = svc,
                           !.Webhooks = webhooks ]
  /\ regOut = {}

(* admissionConfig.Webhooks.asValidatingAdmissionRegistration(config, ca)  *)
BuildRegistration ==
  /\ regOut = {}
  /\ \E caBundle \in {"", ReadFile(TmpCA)} :
       regOut' = {asValidatingAdmissionRegistration(regCfg, caBundle)}
  /\ UNCHANGED << regCfg, serverVars, decisionVars, sanVars, laterVars >>

RegNext == BuildRegistration

RegSpec == RegInit /\ [][RegNext]_vars

(* ------------------------------------------------------ SANs of generateCert *)

(* Names handed to generateCert: DNS names and IP address literals, one of *)
(* them an IPv6 address not in its canonical text form.                    *)
SanNames ==
  { "localhost", "127.0.0.1", "203.0.113.5", "::1", "0:0:0:0:0:0:0:1",
    "webhook.example.test", "extra.example.test" }

(* net.ParseIP: the address (named by its canonical text) or nil.          *)
ParseIP(s) ==
  IF s \in {"127.0.0.1", "203.0.113.5", "::1"} THEN {s}
  ELSE IF s = "0:0:0:0:0:0:0:1" THEN {"::1"}
  ELSE {}

(* The loop over extraSANs: what it appends to sansIps and to sansHosts.   *)
ExtraSANs(extraSANs) ==
  LET ips == SelectSeq(extraSANs, LAMBDA san : ParseIP(san) # {})
  IN [ IPAddresses |-> [ i \in DOMAIN ips |-> CHOOSE ip \in ParseIP(ips[i]) : TRUE ],
       DNSNames |-> SelectSeq(extraSANs, LAMBDA san : ParseIP(san) = {}) ]

(* generateCert whose switch has no case for "127.0.0.1".                  *)
generateCert_noLoopbackCase(host, extraSANs) ==
  LET fromHost ==
        IF host = "localhost"
        THEN [IPAddresses |-> << "127.0.0.1", "::1" >>, DNSNames |-> << host >>]
        ELSE IF ParseIP(host) # {}
        THEN [IPAddresses |-> << CHOOSE ip \in ParseIP(host) : TRUE >>,
              DNSNames |-> << >>]
        ELSE [IPAddresses |-> << >>, DNSNames |-> << host >>]
      extra == ExtraSANs(extraSANs)
  IN [ IPAddresses |-> fromHost.IPAddresses \o extra.IPAddresses,
       DNSNames |-> fromHost.DNSNames \o extra.DNSNames ]

(* generateCert: the IPAddresses and DNSNames of the serving certificate.  *)
generateCert(host, extraSANs) ==
  LET fromHost ==
        IF host = "localhost"
        THEN [IPAddresses |-> << "127.0.0.1", "::1" >>, DNSNames |-> << host >>]
        ELSE IF host = "127.0.0.1"
        THEN [IPAddresses |-> << "127.0.0.1", "::1" >>,
              DNSNames |-> << "localhost" >>]
        ELSE IF ParseIP(host) # {}
        THEN [IPAddresses |-> << CHOOSE ip \in ParseIP(host) : TRUE >>,
              DNSNames |-> << >>]
        ELSE [IPAddresses |-> << >>, DNSNames |-> << host >>]
      extra == ExtraSANs(extraSANs)
  IN [ IPAddresses |-> fromHost.IPAddresses \o extra.IPAddresses,
       DNSNames |-> fromHost.DNSNames \o extra.DNSNames ]

(* Longest extraSANs list.                                                 *)
MaxExtraSANs == 2

SanInit ==
  /\ ServerIdle /\ DecisionIdle /\ RegIdle /\ LaterIdle
  /\ sanHost \in SanNames
  /\ sanExtra \in UNION { [1..n -> SanNames] : n \in 0..MaxExtraSANs }
  /\ sanOut = {}

(* generateCert(ca, host, extraSANs, key) up to the certificate template.  *)
GenerateCert ==
  /\ sanOut = {}
  /\ sanOut' = {generateCert(sanHost, sanExtra)}
  /\ UNCHANGED << sanHost, sanExtra, serverVars, decisionVars, regVars, laterVars >>

SanNext == GenerateCert

SanSpec == SanInit /\ [][SanNext]_vars

(* ---------------------------------------------- requests handled concurrently *)

(* Number of goroutines of the http server running performValidation at    *)
(* the same time.                                                          *)
MaxInFlight == 2

ConcBodies == {"not json", "{}"} \cup { ReviewBody(u) : u \in UIDs }

ConcResults ==
  { [response |-> NewAllowRequest, err |-> Nil],
    [response |-> WebhookResponse(FALSE, {403}, {"denied for test"}), err |-> Nil],
    [response |-> NewRejectRequest, err |-> "callback failed"] }

(* The locals of one invocation of performValidation: body,                *)
(* admissionReview, webhookResponse, the result of json.Marshal, and the   *)
(* response written to the invocation's own http.ResponseWriter.           *)
RequestLocals(at, body, admissionReview, result, marshalOk, response, afterFailure) ==
  [ pc |-> at, body |-> body, admissionReview |-> admissionReview,
    result |-> result, marshalOk |-> marshalOk, response |-> response,
    afterFailure |-> afterFailure ]

NoRequest == RequestLocals("idle", "", {}, {}, {}, {}, FALSE)

(* The panic of a nil Request dereference, recovered by net/http: the      *)
(* connection of this request is dropped.                                  *)
Panicked ==
  [outcome |-> "Panic", status |-> 0, contentType |-> "", body |-> {},
   logged |-> "nil pointer dereference"]

(* One admissionReview variable for all invocations.                       *)
Locals_shared(id, ids) == ids

(* The invocations whose admissionReview an invocation's json.Unmarshal    *)
(* writes: `admissionReview := admissionv1.AdmissionReview{}` is a local   *)
(* of the invocation.                                                      *)
Locals(id, ids) == {id}

ConcInit ==
  /\ ServerIdle /\ DecisionIdle /\ RegIdle /\ SanIdle /\ RaceIdle /\ AgainIdle
  /\ inflight = [ id \in 1..MaxInFlight |-> NoRequest ]

ConcFrame ==
  UNCHANGED << serverVars, decisionVars, regVars, sanVars, raceVars, againVars >>

(* body, _ := ioutil.ReadAll(r.Body): a request arrives on a goroutine     *)
(* that handles none or has answered its last one.                         *)
Arrive(id) ==
  /\ inflight[id].pc \in {"idle", "done"}
  /\ \E body \in ConcBodies :
       inflight' = [ inflight EXCEPT ![id] =
         RequestLocals("read", body, {}, {}, {}, {},
           \E other \in DOMAIN inflight :
             /\ inflight[other].pc = "done"
             /\ \E r \in inflight[other].response : r.outcome # "Responded") ]
  /\ ConcFrame

(* err := json.Unmarshal(body, &admissionReview)                           *)
Decode(id) ==
  /\ inflight[id].pc = "read"
  /\ LET admissionReview == Unmarshal(inflight[id].body)
     IN inflight' =
          [ other \in DOMAIN inflight |->
              IF other = id
              THEN IF admissionReview.err # Nil
                   THEN [ inflight[id] EXCEPT
                            !.pc = "done",
                            !.response = {internalServerError(admissionReview.err)} ]
                   ELSE [ inflight[id] EXCEPT
                            !.pc = "decoded",
                            !.admissionReview = {admissionReview} ]
              ELSE IF other \in Locals(id, DOMAIN inflight)
                      /\ inflight[other].admissionReview # {}
              THEN [ inflight[other] EXCEPT !.admissionReview = {admissionReview} ]
              ELSE inflight[other] ]
  /\ ConcFrame

(* webhookResponse, err := callback(admissionReview.Request), and the      *)
(* read of admissionReview.Request.UID.                                    *)
Decide(id) ==
  /\ inflight[id].pc = "decoded"
  /\ \E r \in ConcResults, admissionReview \in inflight[id].admissionReview :
       inflight' = [ inflight EXCEPT ![id] =
         IF r.err # Nil
         THEN [ @ EXCEPT !.pc = "done", !.result = {r},
                         !.response = {internalServerError(r.err)} ]
         ELSE IF admissionReview.Request = {}
         THEN [ @ EXCEPT !.pc = "done", !.result = {r}, !.response = {Panicked} ]
         ELSE [ @ EXCEPT !.pc = "decided", !.result = {r} ] ]
  /\ ConcFrame

(* json.Marshal(admissionReview) and the three writes to w.                *)
Respond(id) ==
  /\ inflight[id].pc = "decided"
  /\ \E marshalOk \in BOOLEAN, r \in inflight[id].result,
        admissionReview \in inflight[id].admissionReview :
       inflight' = [ inflight EXCEPT ![id] =
         IF ~marshalOk
         THEN [ @ EXCEPT !.pc = "done", !.marshalOk = {marshalOk},
                         !.response = {internalServerError("json: marshal failed")} ]
         ELSE [ @ EXCEPT !.pc = "done", !.marshalOk = {marshalOk},
                         !.response =
                           {[ outcome |-> "Responded", status |-> 200,
                              contentType |-> "application/json",
                              body |-> { Marshal(request, r.response) :
                                           request \in admissionReview.Request },
                              logged |-> Nil ]} ] ]
  /\ ConcFrame

ConcNext ==
  \/ \E id \in DOMAIN inflight : Arrive(id)
  \/ \E id \in DOMAIN inflight : Decode(id)
  \/ \E id \in DOMAIN inflight : Decide(id)
  \/ \E id \in DOMAIN inflight : Respond(id)

ConcSpec == ConcInit /\ [][ConcNext]_vars

(* ------------------------------------------------------------------- Init *)

Init ==
  /\ \E host \in {"", "webhook.example.test"}, certs \in CertInputs, skip \in BOOLEAN :
       /\ config = AdmissionConfig(host, certs, skip)
       /\ files = {certs.CertFile, certs.KeyFile, certs.CaFile} \ {""}
  /\ insecure \in BOOLEAN
  /\ clusterDown \in BOOLEAN
  /\ registry \in SUBSET { [Name |-> n, Webhooks |-> << >>] : n \in RegistryNames }
  /\ pc = "Start"
  /\ steps = << >>
  /\ err = Nil
  /\ ret = "running"
  /\ caCertFile = ""
  /\ certFile = ""
  /\ keyFile = ""
  /\ deferred = {}
  /\ handlers = << >>
  /\ webhookCfg = [Name |-> "", Webhooks |-> << >>]
  /\ calls = << >>
  /\ log = << >>
  /\ listener = "none"
  /\ requests = 0
  /\ served = << >>
  /\ DecisionIdle
  /\ RegIdle
  /\ SanIdle
  /\ LaterIdle

(* A server that always serves TLS.                                        *)
ListenMode_alwaysTLS(ins) == "https"

(* if insecure { http.ListenAndServe } else { http.ListenAndServeTLS }     *)
ListenMode(ins) == IF ins THEN "http" ELSE "https"

(* --------------------------------------------------------------- StartServer *)

(* A return statement of StartServer: the deferred removals run.           *)
Return(e) ==
  /\ pc' = "Returned"
  /\ ret' = e
  /\ files' = files \ deferred
  /\ deferred' = {}

(* if config.CallbackHost == "" { config.CallbackHost = "localhost" }      *)
DefaultHost ==
  /\ pc = "Start"
  /\ config' = IF config.CallbackHost = ""
               THEN [config EXCEPT !.CallbackHost = "localhost"]
               ELSE config
  /\ steps' = Append(steps, "host")
  /\ pc' = StartServerNext("Start", config)
  /\ UNCHANGED << insecure, clusterDown, registry, files, err, ret, caCertFile,
                  certFile, keyFile, deferred, handlers, webhookCfg, calls,
                  log, listener, requests, served >>
  /\ UNCHANGED funcVars

(* Certificate and key supplied by the caller.                             *)
UseSuppliedCerts ==
  /\ pc = "CertMaterial"
  /\ config.CertFile # "" /\ config.KeyFile # ""
  /\ certFile' = config.CertFile
  /\ keyFile' = config.KeyFile
  /\ caCertFile' = config.CaFile
  /\ steps' = Append(steps, "certs")
  /\ pc' = StartServerNext("CertMaterial", config)
  /\ UNCHANGED << config, insecure, clusterDown, registry, files, err, ret,
                  deferred, handlers, webhookCfg, calls, log, listener,
                  requests, served >>
  /\ UNCHANGED funcVars

(* automaticCertGeneration and the three deferred os.Remove calls.         *)
GenerateCerts ==
  /\ pc = "CertMaterial"
  /\ ~(config.CertFile # "" /\ config.KeyFile # "")
  /\ \E failAt \in CertGenFailures \cup {Nil} :
       LET r == automaticCertGeneration(failAt)
           onDisk == (files \cup r.created) \ r.removed
       IN /\ err' = r.err
          /\ IF Fatal(r.err)
             THEN /\ pc' = "Returned"
                  /\ ret' = r.err
                  /\ files' = onDisk \ deferred
                  /\ UNCHANGED << caCertFile, certFile, keyFile, deferred, steps >>
             ELSE /\ caCertFile' = r.caCertFile
                  /\ certFile' = r.certFile
                  /\ keyFile' = r.keyFile
                  /\ files' = onDisk
                  /\ deferred' = {r.caCertFile, r.keyFile, r.certFile}
                  /\ steps' = Append(steps, "certs")
                  /\ pc' = StartServerNext("CertMaterial", config)
                  /\ UNCHANGED ret
  /\ UNCHANGED << config, insecure, clusterDown, registry, handlers, webhookCfg,
                  calls, log, listener, requests, served >>
  /\ UNCHANGED funcVars

(* setupAdmissionWebhooks(config)                                          *)
SetupHandlers ==
  /\ pc = "SetupHandlers"
  /\ handlers' = handlers \o setupAdmissionWebhooks(config)
  /\ steps' = Append(steps, "handlers")
  /\ pc' = StartServerNext("SetupHandlers", config)
  /\ config' = [config EXCEPT !.Webhooks = WebhooksAfterSetup(config)]
  /\ UNCHANGED << insecure, clusterDown, registry, files, err, ret,
                  caCertFile, certFile, keyFile, deferred, webhookCfg, calls,
                  log, listener, requests, served >>
  /\ UNCHANGED funcVars

(* caBundle, err := ioutil.ReadFile(caCertFile)                            *)
ReadCABundle ==
  /\ pc = "ReadCA"
  /\ \E e \in {Nil, "ReadFile"} :
       /\ caCertFile \notin files => e # Nil
       /\ err' = e
       /\ IF Fatal(e)
          THEN Return(e) /\ UNCHANGED steps
          ELSE /\ steps' = Append(steps, "readca")
               /\ pc' = StartServerNext("ReadCA", config)
               /\ UNCHANGED << ret, files, deferred >>
  /\ UNCHANGED << config, insecure, clusterDown, registry, caCertFile, certFile,
                  keyFile, handlers, webhookCfg, calls, log, listener,
                  requests, served >>
  /\ UNCHANGED funcVars

(* ------------------------------------------------- registerAdmissionWebhooks *)

(* The client setup and the construction of the object to register; a      *)
(* failure here is returned to StartServer.                                *)
RegisterSetup ==
  /\ pc = "RegSetup"
  /\ \E e \in {Nil, "GetConfig", "NewForConfig", "pemEncodeCertificate"} :
       /\ err' = e
       /\ IF e # Nil
          THEN /\ IF Fatal(e)
                  THEN Return(e)
                  ELSE /\ pc' = StartServerNext("Registered", config)
                       /\ UNCHANGED << ret, files, deferred >>
               /\ UNCHANGED << webhookCfg, steps >>
          ELSE /\ webhookCfg' = asValidatingAdmissionRegistration(
                                   config, pemEncodeCertificate(ReadFile(caCertFile)))
               /\ steps' = Append(steps, "reconcile")
               /\ pc' = ReconcileNext("RegSetup", Nil)
               /\ UNCHANGED << ret, files, deferred >>
  /\ UNCHANGED << config, insecure, clusterDown, registry, caCertFile, certFile,
                  keyFile, handlers, calls, log, listener, requests, served >>
  /\ UNCHANGED funcVars

(* A cleanup that deletes every registered object.                         *)
AfterDelete_all(reg, name) == {}

(* The registry after ValidatingWebhookConfigurations().Delete(ctx, name,  *)
(* opts) has succeeded.                                                    *)
AfterDelete(reg, name) == { o \in reg : o.Name # name }

(* Delete(admissionConfig.Name): first statement of a cycle.               *)
DeleteStep ==
  /\ pc = "Deleting"
  /\ \E e \in {Nil, "NotFound", "Other"} :
       /\ e = Nil => ~clusterDown /\ Present(registry, config.Name)
       /\ e = "NotFound" => ~clusterDown /\ ~Present(registry, config.Name)
       /\ e = "Other" => clusterDown \/ Faults(calls) < MaxFaults
       /\ registry' = IF e = Nil
                      THEN AfterDelete(registry, config.Name)
                      ELSE registry
       /\ calls' = Append(calls, Call("Delete", config.Name, e, {}))
       /\ log' = DeleteLog(e)
       /\ pc' = ReconcileNext("Deleting", e)
  /\ UNCHANGED << config, insecure, clusterDown, files, steps, err, ret,
                  caCertFile, certFile, keyFile, deferred, handlers, webhookCfg,
                  listener, requests, served >>
  /\ UNCHANGED funcVars

(* List(): the names of all registered objects, or an error.               *)
ListStep ==
  /\ pc = "Listing"
  /\ \E e \in {Nil, "Other"} :
       LET items == IF e = Nil THEN { o.Name : o \in registry } ELSE {}
       IN /\ e = Nil => ~clusterDown
          /\ e = "Other" => clusterDown \/ Faults(calls) < MaxFaults
          /\ calls' = Append(calls, Call("List", "", e, items))
          /\ log' = log \o ListLog(e, items)
          /\ pc' = ReconcileNext("Listing", e)
  /\ UNCHANGED << config, insecure, clusterDown, registry, files, steps, err,
                  ret, caCertFile, certFile, keyFile, deferred, handlers,
                  webhookCfg, listener, requests, served >>
  /\ UNCHANGED funcVars

(* Create(&webhookCfg): success leaves the loop, failure starts a new      *)
(* cycle.                                                                  *)
CreateStep ==
  /\ pc = "Creating"
  /\ \E e \in {Nil, "AlreadyExists", "Other"} :
       /\ e = Nil => ~clusterDown /\ ~Present(registry, webhookCfg.Name)
       /\ e = "AlreadyExists" => ~clusterDown /\ Present(registry, webhookCfg.Name)
       /\ e = "Other" => clusterDown \/ Faults(calls) < MaxFaults
       /\ e # Nil => CreateFailures(calls) < MaxFaults
       /\ registry' = IF e = Nil THEN registry \cup {webhookCfg} ELSE registry
       /\ calls' = Append(calls, Call("Create", webhookCfg.Name, e, {}))
       /\ log' = log \o CreateLog(e)
       /\ pc' = ReconcileNext("Creating", e)
       /\ steps' = IF pc' = "Registered" THEN Append(steps, "registered") ELSE steps
  /\ UNCHANGED << config, insecure, clusterDown, files, err, ret, caCertFile,
                  certFile, keyFile, deferred, handlers, webhookCfg, listener,
                  requests, served >>
  /\ UNCHANGED funcVars

(* return nil, back in StartServer: the locals of the invocation and the  *)
(* record of its calls are dropped.                                        *)
RegisterReturn ==
  /\ pc = "Registered"
  /\ err' = Nil
  /\ pc' = StartServerNext("Registered", config)
  /\ webhookCfg' = [Name |-> "", Webhooks |-> << >>]
  /\ calls' = << >>
  /\ log' = << >>
  /\ UNCHANGED << config, insecure, clusterDown, registry, files, steps, ret,
                  caCertFile, certFile, keyFile, deferred, handlers, listener,
                  requests, served >>
  /\ UNCHANGED funcVars

(* ------------------------------------------------------------------ serving *)

(* http.ListenAndServe / http.ListenAndServeTLS: the listener starts, or   *)
(* the call returns its error at once.                                     *)
StartListener ==
  /\ pc = "Listen"
  /\ \E e \in {Nil, "listen: address already in use"} :
       IF e # Nil
       THEN Return(e) /\ UNCHANGED << listener, steps >>
       ELSE /\ listener' = ListenMode(insecure)
            /\ steps' = Append(steps, "listen")
            /\ pc' = StartServerNext("Listen", config)
            /\ UNCHANGED << ret, files, deferred >>
  /\ UNCHANGED << config, insecure, clusterDown, registry, err, caCertFile,
                  certFile, keyFile, handlers, webhookCfg, calls, log,
                  requests, served >>
  /\ UNCHANGED funcVars

(* The listener ends with an error and StartServer returns it.             *)
ListenerFails ==
  /\ pc = "Serving"
  /\ Return("http: Server closed")
  /\ listener' = "none"
  /\ UNCHANGED << config, insecure, clusterDown, registry, steps, err,
                  caCertFile, certFile, keyFile, handlers, webhookCfg, calls,
                  log, requests, served >>
  /\ UNCHANGED funcVars

(* One request on the pattern of an installed handler.                     *)
HandleRequest ==
  /\ pc = "Serving"
  /\ requests < MaxRequests
  /\ requests' = requests + 1
  /\ \E h \in DOMAIN handlers, body \in Bodies, r \in CallbackResults,
        marshalOk \in BOOLEAN :
       LET v == performValidation(r, body, marshalOk)
       IN served' = << [ path |-> handlers[h].pattern,
                         callback |-> handlers[h].callback,
                         body |-> body,
                         invoked |-> v.invoked,
                         result |-> IF v.invoked THEN {r} ELSE {},
                         marshalFailed |-> v.marshalled /\ ~marshalOk,
                         response |-> v.response ] >>
  /\ UNCHANGED << config, insecure, clusterDown, registry, files, pc, steps,
                  err, ret, caCertFile, certFile, keyFile, deferred, handlers,
                  webhookCfg, calls, log, listener >>
  /\ UNCHANGED funcVars

(* -------------------------------------------------------------------- Next *)

Reconcile == DeleteStep \/ ListStep \/ CreateStep \/ RegisterReturn

Next ==
  \/ DefaultHost
  \/ UseSuppliedCerts
  \/ GenerateCerts
  \/ SetupHandlers
  \/ ReadCABundle
  \/ RegisterSetup
  \/ DeleteStep
  \/ ListStep
  \/ CreateStep
  \/ RegisterReturn
  \/ StartListener
  \/ ListenerFails
  \/ HandleRequest

Spec == Init /\ [][Next]_vars

(* The goroutine running StartServer keeps executing while it is in the    *)
(* reconcile loop: every registry call returns and the next statement runs. *)
LiveSpec == Spec /\ WF_vars(Reconcile)

(* ================================================================ claims *)

(* -------------------------------------------------- reconciliation run again *)

(* How often the reconcile loop is run for the same object.                *)
MaxRuns == 2

(* The loop `for { Delete; List; Create }` entered again with the same     *)
(* webhookCfg, after a run of it has ended with a successful Create.       *)
ReconcileAgain ==
  /\ pc = "Registered"
  /\ runs < MaxRuns
  /\ runs' = runs + 1
  /\ firstRegistry' = IF runs = 1 THEN registry ELSE firstRegistry
  /\ pc' = ReconcileNext("RegSetup", Nil)
  /\ calls' = << >>
  /\ log' = << >>
  /\ UNCHANGED << config, insecure, clusterDown, registry, files, steps, err,
                  ret, caCertFile, certFile, keyFile, deferred, handlers,
                  webhookCfg, listener, requests, served >>
  /\ UNCHANGED << decisionVars, regVars, sanVars, concVars, raceVars >>

AgainNext ==
  \/ DefaultHost
  \/ UseSuppliedCerts
  \/ GenerateCerts
  \/ SetupHandlers
  \/ ReadCABundle
  \/ RegisterSetup
  \/ DeleteStep
  \/ ListStep
  \/ CreateStep
  \/ RegisterReturn
  \/ ReconcileAgain

AgainSpec == Init /\ [][AgainNext]_vars

(* ------------------------------------------------------ competing reconcilers *)

(* Two processes of the program, started with the same configuration name  *)
(* against the same cluster.                                               *)
Reconcilers == {1, 2}

(* Names of the objects the registry can hold when the two start.          *)
RaceNames == RegistryNames \cup {"third-party"}

RaceConfig ==
  AdmissionConfig("localhost", CHOOSE c \in CertInputs : c.CertFile = "", FALSE)

(* webhookCfg of a process: each process has generated its own CA.         *)
RaceObject(p) ==
  asValidatingAdmissionRegistration(
    RaceConfig, pemEncodeCertificate("ca-of-process-" \o ToString(p)))

RaceInit ==
  /\ ServerIdle /\ DecisionIdle /\ RegIdle /\ SanIdle /\ ConcIdle /\ AgainIdle
  /\ racePc = [ p \in Reconcilers |-> ReconcileNext("RegSetup", Nil) ]
  /\ raceRegistry \in SUBSET { [Name |-> n, Webhooks |-> << >>] : n \in RaceNames }

RaceFrame ==
  UNCHANGED << serverVars, decisionVars, regVars, sanVars, concVars, againVars >>

(* Delete(admissionConfig.Name) by process p.                              *)
RaceDelete(p) ==
  /\ racePc[p] = "Deleting"
  /\ \E e \in {Nil, "NotFound", "Other"} :
       /\ e = Nil => Present(raceRegistry, RaceConfig.Name)
       /\ e = "NotFound" => ~Present(raceRegistry, RaceConfig.Name)
       /\ raceRegistry' = IF e = Nil
                          THEN AfterDelete(raceRegistry, RaceConfig.Name)
                          ELSE raceRegistry
       /\ racePc' = [racePc EXCEPT ![p] = ReconcileNext("Deleting", e)]
  /\ RaceFrame

(* List() by process p.                                                    *)
RaceList(p) ==
  /\ racePc[p] = "Listing"
  /\ \E e \in {Nil, "Other"} :
       racePc' = [racePc EXCEPT ![p] = ReconcileNext("Listing", e)]
  /\ UNCHANGED raceRegistry
  /\ RaceFrame

(* Create(&webhookCfg) by process p.                                       *)
RaceCreate(p) ==
  /\ racePc[p] = "Creating"
  /\ \E e \in {Nil, "AlreadyExists", "Other"} :
       /\ e = Nil => ~Present(raceRegistry, RaceObject(p).Name)
       /\ e = "AlreadyExists" => Present(raceRegistry, RaceObject(p).Name)
       /\ raceRegistry' = IF e = Nil THEN raceRegistry \cup {RaceObject(p)}
                          ELSE raceRegistry
       /\ racePc' = [racePc EXCEPT ![p] = ReconcileNext("Creating", e)]
  /\ RaceFrame

(* log.Infof, break and `return nil` of process p.                         *)
RaceReturn(p) ==
  /\ racePc[p] = "Registered"
  /\ racePc' = [racePc EXCEPT ![p] = "Returned"]
  /\ UNCHANGED raceRegistry
  /\ RaceFrame

RaceNext ==
  \/ \E p \in Reconcilers : RaceDelete(p)
  \/ \E p \in Reconcilers : RaceList(p)
  \/ \E p \in Reconcilers : RaceCreate(p)
  \/ \E p \in Reconcilers : RaceReturn(p)

RaceSpec == RaceInit /\ [][RaceNext]_vars

(* ------------------------------------------------------------ claim helpers *)

Last(seq) == seq[Len(seq)]

Did(stage) == \E i \in DOMAIN steps : steps[i] = stage

IsPrefix(a, b) == Len(a) <= Len(b) /\ \A i \in DOMAIN a : a[i] = b[i]

(* The operations of n complete cycles: Delete, List, Create, n times.     *)
CycleOps(n) ==
  [ i \in 1..(3 * n) |-> << "Delete", "List", "Create" >>[((i - 1) % 3) + 1] ]

OpsOf(cs) == [ i \in DOMAIN cs |-> cs[i].op ]

CleanupLine == Line("error", "Could not cleanup webhook prior to start", {})

(* C1: when the reconcile loop has been left after n failed Create calls,  *)
(* the registry calls made are exactly n+1 cycles of Delete (of the        *)
(* configuration name), List, Create in that order, and the function then  *)
(* returns nil to StartServer, which goes on to the listener.              *)
C1_RetryCount ==
  [][ pc = "Registered" =>
        /\ OpsOf(calls) = CycleOps(CreateFailures(calls) + 1)
        /\ \A i \in DOMAIN calls :
             calls[i].op \in {"Delete", "Create"} => calls[i].name = config.Name
        /\ Last(calls).err = Nil
        /\ err' = Nil
        /\ ret' = "running"
        /\ pc' = "Listen" ]_vars

(* C1 witness: Create failed exactly twice and succeeded the third time,   *)
(* Delete answering NotFound in each of the three cycles.                  *)
C1_Witness ==
  /\ pc = "Registered"
  /\ CreateFailures(calls) = 2
  /\ Len(calls) = 9
  /\ \A i \in DOMAIN calls : calls[i].op = "Delete" => calls[i].err = "NotFound"

(* C2: the reconcile loop is left only by a Create that answered nil, and  *)
(* what is then returned is nil; no step out of the loop follows a Delete, *)
(* a List, or a Create that failed.                                        *)
C2_OnlyTerminal ==
  [][ /\ (pc \in LoopStates /\ pc' \notin LoopStates) =>
           /\ pc = "Creating"
           /\ pc' = "Registered"
           /\ Last(calls').op = "Create"
           /\ Last(calls').err = Nil
           /\ ret' = "running"
      /\ pc = "Registered" => (err' = Nil /\ ret' = "running") ]_vars

(* C2 witness: the loop is left after a Delete, a List and a Create have   *)
(* failed on the way.                                                      *)
C2_Witness ==
  /\ pc = "Registered"
  /\ \E i \in DOMAIN calls : calls[i].op = "Delete" /\ calls[i].err = "Other"
  /\ \E i \in DOMAIN calls : calls[i].op = "List" /\ calls[i].err = "Other"
  /\ \E i \in DOMAIN calls : calls[i].op = "Create" /\ calls[i].err # Nil

(* C3: when the registry fails only finitely often, a reconciliation that  *)
(* has entered the loop eventually leaves it registered; when the registry *)
(* never answers, reconciliation stays in the loop and no listener starts. *)
C3_EventualRegistration ==
  /\ (pc \in LoopStates /\ ~clusterDown) ~> (pc = "Registered")
  /\ [](clusterDown /\ Did("reconcile") =>
          /\ pc \in LoopStates
          /\ listener = "none"
          /\ ret = "running"
          /\ ~Did("listen"))

(* C3 witness: registration reached after the registry failed twice.       *)
C3_Witness ==
  /\ pc = "Registered"
  /\ ~clusterDown
  /\ Faults(calls) = 2

(* C4: after Delete, nothing is logged when it answered nil or NotFound,   *)
(* the cleanup line is logged when it failed otherwise, and in every case  *)
(* the cycle goes on to List and from List to Create.                      *)
C4_DeleteOutcome ==
  [][ /\ pc = "Deleting" =>
           /\ pc' = "Listing"
           /\ ret' = "running"
           /\ Last(calls').op = "Delete"
           /\ Last(calls').err \in {Nil, "NotFound"} => log' = << >>
           /\ Last(calls').err \notin {Nil, "NotFound"} => log' = << CleanupLine >>
      /\ pc = "Listing" => pc' = "Creating" ]_vars

(* C4 witness: a cycle whose Delete failed with another error than         *)
(* NotFound went on to List and to a Create that succeeded; an earlier     *)
(* cycle had Delete answer NotFound.                                       *)
C4_Witness ==
  /\ pc = "Registered"
  /\ Len(calls) = 6
  /\ calls[1].err = "NotFound"
  /\ calls[4].op = "Delete" /\ calls[4].err = "Other"

(* C5: Create is the call that follows every List, whether List failed or  *)
(* returned any set of registered objects.                                 *)
C5_ListNeverBlocks ==
  [][ /\ pc = "Listing" => (pc' = "Creating" /\ Last(calls').op = "List")
      /\ pc = "Creating" =>
           /\ Last(calls).op = "List"
           /\ Last(calls').op = "Create" ]_vars

(* C5 witness: Create was attempted after a List that failed and after a   *)
(* List that reported an unrelated registered object.                      *)
C5_Witness ==
  /\ \E i \in DOMAIN calls :
       /\ calls[i].op = "List" /\ calls[i].err = "Other"
       /\ i < Len(calls) /\ calls[i + 1].op = "Create"
  /\ \E i \in DOMAIN calls :
       /\ calls[i].op = "List" /\ "other" \in calls[i].items
       /\ i < Len(calls) /\ calls[i + 1].op = "Create"

(* C6: after a List that succeeded, the already-registered warning is in   *)
(* the cycle's log exactly when the List result holds an object whose name *)
(* differs from the configuration name.                                    *)
C6_WarningIffOthers ==
  (pc = "Creating" /\ Last(calls).err = Nil) =>
     ( (\E i \in DOMAIN log : log[i].level = "info")
       <=> (Last(calls).items \ {config.Name} # {}) )

(* C7: the startup stages are entered in the order host defaulting,        *)
(* certificate material, handlers, CA bundle, reconciliation, registered,  *)
(* listener (the three registration stages left out when registration is   *)
(* skipped); the listener is up and requests are handled only after all    *)
(* of them, reconciliation having returned nil.                            *)
StartupOrder(cfg) ==
  IF cfg.SkipAdmissionRegistration
  THEN << "host", "certs", "handlers", "listen" >>
  ELSE << "host", "certs", "handlers", "readca", "reconcile", "registered",
          "listen" >>

C7_StartupOrder ==
  /\ IsPrefix(steps, StartupOrder(config))
  /\ Did("host") => config.CallbackHost # ""
  /\ (listener # "none" \/ requests > 0 \/ pc = "Serving") =>
       /\ steps = StartupOrder(config)
       /\ err = Nil
       /\ handlers # << >>
       /\ ~config.SkipAdmissionRegistration => Present(registry, config.Name)

(* C7 witness: a request handled by a server that defaulted its host and   *)
(* went through registration.                                              *)
C7_Witness ==
  /\ pc = "Serving"
  /\ requests > 0
  /\ ~config.SkipAdmissionRegistration
  /\ config.CallbackHost = "localhost"
  /\ Did("registered")

(* C8: once certificate generation, the read of the CA bundle or the       *)
(* registry client setup has failed, StartServer has returned that error,  *)
(* and no listener was started and no request handled.                     *)
C8_FatalStartup ==
  err # Nil =>
    /\ pc = "Returned"
    /\ ret = err
    /\ listener = "none"
    /\ ~Did("listen")
    /\ requests = 0

(* C8 witness: the registry client setup failed after the handlers were    *)
(* installed.                                                              *)
C8_Witness ==
  /\ pc = "Returned"
  /\ ret = "NewForConfig"
  /\ handlers # << >>

(* C9: with SkipAdmissionRegistration set, no registry call is made, the   *)
(* CA bundle is not read, and the stage after the handlers is the          *)
(* listener.                                                               *)
C9_SkipRegistration ==
  config.SkipAdmissionRegistration =>
    /\ calls = << >>
    /\ pc \notin ({"ReadCA", "RegSetup", "Registered"} \cup LoopStates)
    /\ ~Did("readca") /\ ~Did("reconcile") /\ ~Did("registered")
    /\ pc = "Serving" => steps = << "host", "certs", "handlers", "listen" >>

(* C9 witness: a skipping server is serving although its CA file name is   *)
(* empty, which a read would have failed on.                               *)
C9_Witness ==
  /\ config.SkipAdmissionRegistration
  /\ pc = "Serving"
  /\ caCertFile = ""
  /\ requests > 0

(* C10: every handled request ends Responded (200, a review in the body)   *)
(* or Error500 (500, empty body), and Error500 exactly when decoding, the  *)
(* callback or encoding failed.                                            *)
C10_TotalOutcome ==
  \A i \in DOMAIN served :
    LET r == served[i]
        failed == \/ Unmarshal(r.body).err # Nil
                  \/ \E c \in r.result : c.err # Nil
                  \/ r.marshalFailed
    IN /\ r.response.outcome \in {"Responded", "Error500"}
       /\ r.response.outcome = "Responded" =>
            (r.response.status = 200 /\ r.response.body # {})
       /\ r.response.outcome = "Error500" =>
            (r.response.status = 500 /\ r.response.body = {})
       /\ r.response.outcome = "Error500" <=> failed


(* Bodies that do not parse as an admission-review envelope.               *)
MalformedBodies == {"not json", "[]"}

(* C11: a request whose body does not parse as an admission review is      *)
(* answered with status 500 and nothing in the body, and the callback is   *)
(* not invoked for it.                                                     *)
C11_MalformedBody ==
  \A i \in DOMAIN served :
    served[i].body \in MalformedBodies =>
      /\ served[i].response.status = 500
      /\ served[i].response.body = {}
      /\ served[i].response.contentType = ""
      /\ ~served[i].invoked
      /\ served[i].result = {}

(* C11 witness: a body that is no JSON was handled.                        *)
C11_Witness ==
  \E i \in DOMAIN served :
    served[i].body = "not json" /\ served[i].response.outcome = "Error500"

(* C12: for every body that decodes and every decision the callback        *)
(* returns without error, the status is 200, the Content-Type is           *)
(* application/json, and the review in the body carries the UID of the     *)
(* request and the decision's allowed flag.                                *)
C12_RoundTrip ==
  \A i \in DOMAIN served :
    LET r == served[i]
    IN (/\ r.body \notin MalformedBodies
        /\ \E c \in r.result : c.err = Nil
        /\ ~r.marshalFailed) =>
         /\ r.response.status = 200
         /\ r.response.contentType = "application/json"
         /\ \E b \in r.response.body :
              /\ r.body = ReviewBody(b.UID)
              /\ \A c \in r.result : b.Allowed = c.response.Allowed

(* The statement of C12 for the bodies that carry an admission request; it *)
(* holds of the handler.                                                   *)
RoundTripWithRequest ==
  \A i \in DOMAIN served :
    LET r == served[i]
    IN (/\ r.body \in { ReviewBody(u) : u \in UIDs }
        /\ \E c \in r.result : c.err = Nil
        /\ ~r.marshalFailed) =>
         /\ r.response.status = 200
         /\ r.response.contentType = "application/json"
         /\ \E b \in r.response.body :
              /\ r.body = ReviewBody(b.UID)
              /\ \A c \in r.result : b.Allowed = c.response.Allowed

(* C13: the review written for an allowing decision carries no status code *)
(* and no message, whatever the decision's Code and RejectionMessage hold; *)
(* for a denying decision it carries exactly the decision's code and       *)
(* message.                                                                *)
C13_OnlyOnDenial ==
  \A i \in DOMAIN served :
    \A b \in served[i].response.body :
      \A c \in served[i].result :
        IF c.response.Allowed
        THEN b.Code = {} /\ b.Message = {}
        ELSE b.Code = c.response.Code /\ b.Message = c.response.RejectionMessage

(* ------------------------------------------------------------------ C14 *)

(* The last builder call of the given kind in the chain, if any.           *)
LastCall(op) ==
  LET idx == { i \in DOMAIN chain : chain[i].op = op }
  IN IF idx = {} THEN {}
     ELSE {chain[CHOOSE i \in idx : \A j \in idx : j <= i]}

(* C14: WithCode and WithMessage, applied in any order and any number of   *)
(* times, return an allowing decision equal to the original; on a denying  *)
(* decision each sets its field to the value of the last call of its kind, *)
(* leaves the other field as it was, and never changes the allowed flag.   *)
C14_BuilderCalls ==
  /\ decision.Allowed = original.Allowed
  /\ original.Allowed => decision = original
  /\ ~original.Allowed =>
       /\ decision.Code =
            IF LastCall("WithCode") = {} THEN original.Code
            ELSE (CHOOSE c \in LastCall("WithCode") : TRUE).code
       /\ decision.RejectionMessage =
            IF LastCall("WithMessage") = {} THEN original.RejectionMessage
            ELSE (CHOOSE c \in LastCall("WithMessage") : TRUE).message

(* Both builders were applied to NewAllowRequest(), MaxChain calls in all, *)
(* and left it without code and message.                                   *)
C14_Witness ==
  /\ original = NewAllowRequest
  /\ Len(chain) = MaxChain
  /\ LastCall("WithCode") # {} /\ LastCall("WithMessage") # {}
  /\ decision.Code = {} /\ decision.RejectionMessage = {}

(* ------------------------------------------------------------------ C15 *)

UnnamedPair == << [Name |-> "", Path |-> "", Callback |-> 1],
                  [Name |-> "", Path |-> "", Callback |-> 1] >>

(* C15: the registration object has one entry per webhook definition, in   *)
(* the same order; entry i (counted from 0) is named <name>.<config-name>, *)
(* <name> being the webhook's name if given and rule-<i> otherwise. For    *)
(* config name "demo" and two unnamed webhooks: rule-0.demo, rule-1.demo.  *)
C15_RegistrationNaming ==
  \A o \in regOut :
    /\ Len(o.Webhooks) = Len(regCfg.Webhooks)
    /\ \A i \in DOMAIN regCfg.Webhooks :
         o.Webhooks[i].Name =
           (IF regCfg.Webhooks[i].Name # "" THEN regCfg.Webhooks[i].Name
            ELSE "rule-" \o ToString(i - 1)) \o "." \o regCfg.Name
    /\ (regCfg.Name = "demo" /\ regCfg.Webhooks = UnnamedPair) =>
         /\ o.Webhooks[1].Name = "rule-0.demo"
         /\ o.Webhooks[2].Name = "rule-1.demo"

(* The object was built for two unnamed webhooks.                          *)
C15_Witness ==
  \E o \in regOut :
    /\ regCfg.Webhooks = UnnamedPair
    /\ o.Webhooks[2].Name = "rule-1.demo"

(* ------------------------------------------------------------------ C16 *)

(* The callback host as it is written in a URL: an IPv6 literal is in      *)
(* brackets.                                                               *)
HostInURL(host) == IF host = "::1" THEN "[::1]" ELSE host

(* C16: every entry carries exactly one of a service reference or a URL:   *)
(* the service reference (namespace, service name, webhook path, callback  *)
(* port) exactly when namespace and service name are both non-empty,       *)
(* otherwise the URL https://<callback host>:<callback port><webhook path>. *)
C16_CallbackAddressing ==
  \A o \in regOut : \A i \in DOMAIN o.Webhooks :
    LET e == o.Webhooks[i]
        w == regCfg.Webhooks[i]
    IN IF regCfg.KubeNamespace # "" /\ regCfg.KubeService # ""
       THEN /\ e.URL = {}
            /\ e.Service = {[Namespace |-> regCfg.KubeNamespace,
                             Name |-> regCfg.KubeService,
                             Path |-> w.Path,
                             Port |-> regCfg.CallbackPort]}
       ELSE /\ e.Service = {}
            /\ e.URL = {"https://" \o HostInURL(regCfg.CallbackHost) \o ":"
                          \o ToString(regCfg.CallbackPort) \o w.Path}

(* Built with only the namespace given: the entry carries a URL.           *)
C16_Witness ==
  \E o \in regOut :
    /\ regCfg.KubeNamespace # "" /\ regCfg.KubeService = ""
    /\ Len(o.Webhooks) = 2
    /\ o.Webhooks[2].Service = {}
    /\ o.Webhooks[2].URL = {"https://webhook.example.test:8443/validate"}

(* ------------------------------------------------------------------ C17 *)

(* TLS material is configured: StartServer holds a certificate and a key,  *)
(* supplied by the caller or generated.                                    *)
TLSMaterial == certFile # "" /\ keyFile # ""

(* C17: StartServer serves HTTPS with the serving certificate and key      *)
(* whenever any TLS material is configured (generated or caller-supplied), *)
(* and plain HTTP only otherwise.                                          *)
C17_ServingMode ==
  listener # "none" => (listener = "https" <=> TLSMaterial)

(* C17 as amended: StartServer serves plain HTTP exactly when it is called *)
(* with insecure = true, whatever TLS material is configured, and HTTPS    *)
(* with the serving certificate and key exactly when insecure = false; a   *)
(* certificate and a key are configured in both cases.                     *)
C17_ServingModeByFlag ==
  listener # "none" =>
    /\ listener = (IF insecure THEN "http" ELSE "https")
    /\ TLSMaterial

(* Plain HTTP is served although the caller supplied certificate and key.  *)
C17_Witness ==
  /\ listener = "http"
  /\ pc = "Serving"
  /\ config.CertFile # "" /\ config.KeyFile # ""
  /\ certFile = config.CertFile

(* ------------------------------------------------------------------ C18 *)

(* C18: over a whole run of StartServer the only field of the caller's     *)
(* AdmissionConfig that changes is CallbackHost, and only from empty to    *)
(* "localhost"; the webhook list, with each Path and Name, is unchanged.   *)
C18_ConfigReadOnly ==
  [][ \/ config' = config
      \/ /\ config.CallbackHost = ""
         /\ config' = [config EXCEPT !.CallbackHost = "localhost"] ]_vars

(* StartServer defaulted the host, installed a handler on a generated path *)
(* for the webhook without Path, registered and serves; the webhook's Path *)
(* in the configuration is still empty.                                    *)
C18_Witness ==
  /\ pc = "Serving"
  /\ Did("registered")
  /\ config.CallbackHost = "localhost"
  /\ config.Webhooks[1].Path = ""
  /\ handlers[1].pattern = generateValidatePath(1)

(* ------------------------------------------------------------------ C19 *)

TemporaryFiles == {TmpCA, TmpCert, TmpKey}

SuppliedFiles == {config.CertFile, config.KeyFile, config.CaFile} \ {""}

(* C19: once StartServer has returned, on whatever path, none of the       *)
(* temporary CA, certificate and key files of automaticCertGeneration      *)
(* remains; the caller-supplied files are never removed.                   *)
C19_NoTemporaryFileLeft ==
  /\ pc = "Returned" => files \cap TemporaryFiles = {}
  /\ SuppliedFiles \subseteq files

(* StartServer generated the three files, failed to listen and returned.   *)
C19_Witness ==
  /\ pc = "Returned"
  /\ caCertFile = TmpCA /\ certFile = TmpCert /\ keyFile = TmpKey
  /\ ret = "listen: address already in use"
  /\ SuppliedFiles # {}

(* ------------------------------------------------------------------ C20 *)

Range(seq) == { seq[i] : i \in DOMAIN seq }

Loopback == {"localhost", "127.0.0.1"}

(* C20: for host "localhost" and for host "127.0.0.1" the SANs from the    *)
(* host are IP 127.0.0.1, IP ::1 and DNS name "localhost"; for any other   *)
(* host exactly one entry, an IP SAN if the host parses as an IP address   *)
(* and a DNS SAN otherwise; each extra SAN is classified the same way and  *)
(* appended, so every input name is in exactly one of the two lists.       *)
C20_SANClassification ==
  \A o \in sanOut :
    LET nHostIPs == Len(o.IPAddresses) - Len(ExtraSANs(sanExtra).IPAddresses)
        nHostDNS == Len(o.DNSNames) - Len(ExtraSANs(sanExtra).DNSNames)
        hostIPs == SubSeq(o.IPAddresses, 1, nHostIPs)
        hostDNS == SubSeq(o.DNSNames, 1, nHostDNS)
        extraIPs == SubSeq(o.IPAddresses, nHostIPs + 1, Len(o.IPAddresses))
        extraDNS == SubSeq(o.DNSNames, nHostDNS + 1, Len(o.DNSNames))
    IN /\ nHostIPs >= 0 /\ nHostDNS >= 0
       /\ IF sanHost \in Loopback
          THEN /\ Range(hostIPs) = {"127.0.0.1", "::1"} /\ Len(hostIPs) = 2
               /\ hostDNS = << "localhost" >>
          ELSE /\ Len(hostIPs) + Len(hostDNS) = 1
               /\ IF ParseIP(sanHost) # {}
                  THEN Range(hostIPs) = ParseIP(sanHost)
                  ELSE hostDNS = << sanHost >>
       /\ Len(extraIPs) + Len(extraDNS) = Len(sanExtra)
       /\ \A i \in DOMAIN sanExtra :
            IF ParseIP(sanExtra[i]) # {}
            THEN /\ ParseIP(sanExtra[i]) \subseteq Range(extraIPs)
                 /\ sanExtra[i] \notin Range(extraDNS)
            ELSE /\ sanExtra[i] \in Range(extraDNS)
                 /\ sanExtra[i] \notin Range(extraIPs)

(* A certificate for host 127.0.0.1 with a DNS name and a non-canonical    *)
(* IPv6 literal as extra SANs.                                             *)
C20_Witness ==
  /\ sanHost = "127.0.0.1"
  /\ sanExtra = << "extra.example.test", "0:0:0:0:0:0:0:1" >>
  /\ sanOut = {[ IPAddresses |-> << "127.0.0.1", "::1", "::1" >>,
                 DNSNames |-> << "localhost", "extra.example.test" >> ]}

(* ------------------------------------------------------------------ C21 *)

(* C21: with requests handled concurrently in any interleaving, the        *)
(* outcome of each request is the one performValidation gives for that     *)
(* request's own body and its own callback result, whatever the other      *)
(* requests in flight are and however they ended; a request that failed    *)
(* changes no other response and no later one.                             *)
C21_RequestIsolation ==
  \A id \in DOMAIN inflight :
    inflight[id].pc = "done" =>
      \E r \in ConcResults, marshalOk \in BOOLEAN :
        LET alone == performValidation(r, inflight[id].body, marshalOk)
        IN /\ inflight[id].result \in {{}, {r}}
           /\ inflight[id].marshalOk \in {{}, {marshalOk}}
           /\ alone.invoked <=> inflight[id].result # {}
           /\ (alone.marshalled /\ alone.response.outcome # "Panic")
                <=> inflight[id].marshalOk # {}
           /\ inflight[id].response = {alone.response}

(* A request that arrived after another one had failed was answered 200    *)
(* with its own UID while the other goroutine had answered 500.            *)
C21_Witness ==
  \E id, other \in DOMAIN inflight :
    /\ id # other
    /\ inflight[id].pc = "done" /\ inflight[id].afterFailure
    /\ inflight[id].body = ReviewBody("uid-2")
    /\ \E r \in inflight[id].response :
         r.status = 200 /\ \E b \in r.body : b.UID = "uid-2"
    /\ inflight[other].pc = "done"
    /\ inflight[other].body = ReviewBody("uid-1")
    /\ \E r \in inflight[other].response : r.status = 500

(* ------------------------------------------------------------------ C22 *)

(* The objects registered under the configuration name.                    *)
OwnObjects(reg) == { o \in reg : o.Name = config.Name }

(* C22: when a run of reconciliation has ended, also one that found an     *)
(* object under the configuration name, exactly one object is registered   *)
(* under that name and it is the desired object; a second run in sequence  *)
(* leaves the registry as the first run left it.                           *)
C22_IdempotentRegistration ==
  pc = "Registered" =>
    /\ OwnObjects(registry) = {webhookCfg}
    /\ webhookCfg = asValidatingAdmissionRegistration(
                       config, pemEncodeCertificate(ReadFile(caCertFile)))
    /\ runs > 1 => registry = firstRegistry

(* The first run found an object of another content under the name and    *)
(* replaced it; the second run then deleted and created the desired object *)
(* again, after a Create that answered "already exists".                   *)
C22_Witness ==
  /\ pc = "Registered"
  /\ runs = 2
  /\ [Name |-> config.Name, Webhooks |-> << >>] \notin registry
  /\ webhookCfg \in firstRegistry
  /\ \E i \in DOMAIN calls : calls[i].op = "Create" /\ calls[i].err = "AlreadyExists"

(* ------------------------------------------------------------------ C23 *)

(* The path in a registered entry's callback address: the service          *)
(* reference's path, or what follows host and port in the URL.             *)
RegisteredPathIs(entry, path) ==
  /\ \A ref \in entry.Service : ref.Path = path
  /\ \A u \in entry.URL :
       u = URLString("https",
                     JoinHostPort(config.CallbackHost, ToString(config.CallbackPort)),
                     path)

(* C23: for every webhook of the configuration, also one whose Path was    *)
(* left unset, the path on which the handler is installed is the path in   *)
(* that webhook's registered callback address.                             *)
C23_HandlerPathRegistered ==
  (pc \in LoopStates \cup {"Registered"}) =>
    \A i \in DOMAIN config.Webhooks :
      RegisteredPathIs(webhookCfg.Webhooks[i], handlers[i].pattern)

(* The same for the webhooks whose Path is given: it holds.                *)
HandlerPathRegisteredWhenGiven ==
  (pc \in LoopStates \cup {"Registered"}) =>
    \A i \in DOMAIN config.Webhooks :
      config.Webhooks[i].Path # "" =>
        RegisteredPathIs(webhookCfg.Webhooks[i], handlers[i].pattern)

(* ------------------------------------------------------------------ C24 *)

(* C24: a request arriving on the path of webhook i is decided by the      *)
(* callback of webhook i and by no other webhook's callback.               *)
C24_HandlerCallbackBinding ==
  \A k \in DOMAIN served : \A i \in DOMAIN handlers :
    (served[k].invoked /\ handlers[i].pattern = served[k].path) =>
      served[k].callback = config.Webhooks[i].Callback

(* The same for requests on the path of the last webhook of the list: it   *)
(* holds.                                                                  *)
LastHandlerCallbackBinding ==
  \A k \in DOMAIN served :
    (served[k].invoked /\ handlers[Len(handlers)].pattern = served[k].path) =>
      served[k].callback = config.Webhooks[Len(config.Webhooks)].Callback

(* ------------------------------------------------------------------ C25 *)

(* The objects registered under another name than the configuration's.     *)
OtherObjects(reg) == { o \in reg : o.Name # config.Name }

(* C25: over any number of reconcile cycles and any pattern of failures,   *)
(* Delete and Create are called for the configuration name only, and every *)
(* registry object under a different name stays as it is.                  *)
C25_OthersUntouched ==
  [][ /\ OtherObjects(registry') = OtherObjects(registry)
      /\ \A i \in DOMAIN calls' :
           calls'[i].op \in {"Delete", "Create"} => calls'[i].name = config.Name ]_vars

(* A run with failing cycles replaced the own object and ended with the    *)
(* object of another name still registered.                                *)
C25_Witness ==
  /\ pc = "Registered"
  /\ CreateFailures(calls) > 0
  /\ \E i \in DOMAIN calls : calls[i].op = "Delete" /\ calls[i].err = Nil
  /\ OtherObjects(registry) = {[Name |-> "other", Webhooks |-> << >>]}
  /\ webhookCfg \in registry

(* ------------------------------------------------------------------ C26 *)

(* C26: with two processes running the reconcile loop for the same name    *)
(* against the same registry, in every interleaving of their calls, at the *)
(* moment a process's reconciliation returns the object registered under   *)
(* that name is the one that process created.                              *)
C26_HoldsRegistrationAtReturn ==
  [][ \A p \in Reconcilers :
        (racePc[p] = "Registered" /\ racePc'[p] = "Returned") =>
          { o \in raceRegistry' : o.Name = RaceConfig.Name } = {RaceObject(p)} ]_vars

(* Without a competitor between a process's Create and its return, the     *)
(* object registered right after the Create is that process's: it holds.   *)
OwnObjectRightAfterCreate ==
  [][ \A p \in Reconcilers :
        (racePc[p] = "Creating" /\ racePc'[p] = "Registered") =>
          { o \in raceRegistry' : o.Name = RaceConfig.Name } = {RaceObject(p)} ]_vars

====
